---- MODULE Spec2Model ----
(***************************************************************************)
(* Model of docs/integration/slack-alert.py: the poll loop of main(), the  *)
(* SlackAlertService (ledger sent_alerts, send_alert) and the              *)
(* AuditServiceClient (query_critical_findings).                           *)
(*                                                                         *)
(* Time is counted in minutes: POLL_INTERVAL (60 seconds) is one unit and  *)
(* the initial look-back of main() is five.                                *)
(***************************************************************************)
EXTENDS Integers, Sequences, FiniteSets

VARIABLES
    pc,          \* position of main(): see PcValues
    token,       \* SLACK_TOKEN as read from the environment
    sent_alerts, \* SlackAlertService.sent_alerts
    last_poll,   \* main(): last_poll
    now,         \* the wall clock, datetime.now()
    findings,    \* main(): findings, the batch returned by the last query
    idx,         \* position of `for finding in findings` (next index)
    store,       \* the audit service's CRITICAL findings
    fetchStatus, \* how the query of this cycle ended: none / ok / failed / raised
    since,       \* the since argument of the last query
    branch,      \* the branch of `if findings:` taken in this cycle
    lastExc,     \* class of the last exception raised in the process
    posted,      \* per identifier: chat_postMessage calls that returned (capped)
    called,      \* identifiers chat_postMessage was called for in this cycle
    skipped,     \* identifiers send_alert skipped in this cycle (already sent)
    failed,      \* identifiers whose dispatch has failed at some point
    fetched,     \* whether requests.get has ever been called
    lastSend,    \* the last send_alert invocation: outcome, channel calls, result
    queryTime,   \* the clock when the last query was issued
    resumed,     \* whether the cycle before this one was ended by an exception
    rin,         \* a finding record handed to the renderer
    rout         \* what rendering rin gave

vars == <<pc, token, sent_alerts, last_poll, now, findings, idx, store,
          fetchStatus, since, branch, lastExc, posted, called, skipped,
          failed, fetched, lastSend, queryTime, resumed, rin, rout>>

----------------------------------------------------------------------------
\* Bounds of the model
MaxIds == 2
MaxTime == 6
MaxBatch == 2
MaxMeta == 2

\* Program constants
POLL_INTERVAL == 1
Lookback == 5
DefaultLimit == 100

Ids == 1..MaxIds
StartTime == Lookback
Times == 0..MaxTime

NoToken == "None"
Tokens == {NoToken, "", "xoxb-token"}

PcValues == {"init", "poll", "notify", "update", "sleep", "errsleep",
             "ShutDown", "exit1", "crashed"}
LoopStates == {"poll", "notify", "update", "sleep", "errsleep"}
Terminated == {"ShutDown", "exit1", "crashed"}

Finding(i, t) == [id |-> i, createdAt |-> t]

----------------------------------------------------------------------------
\* Variant: only None counts as a missing token
Truthy_NoneOnly(tok) == tok # NoToken

\* Python truth value of the token: None and "" are falsy
Truthy(tok) == tok # NoToken /\ tok # ""

\* The exit status of the process in a terminated state
ExitStatus(p) == IF p = "ShutDown" THEN 0 ELSE 1

\* if finding_id in self.sent_alerts
AlreadySent(ledger, id) == id \in ledger

\* Variant: the ledger is assigned a new set instead of being added to
MarkSent_Replace(ledger, id) == {id}

\* Variant: the identifier is not recorded
MarkSent_Dropped(ledger, id) == ledger

\* self.sent_alerts.add(finding_id)
MarkSent(ledger, id) == ledger \cup {id}

\* The audit service: findings created at or after `start`, newest first
\* (ties by identifier), at most `size` of them.
RECURSIVE SortDesc(_)
SortDesc(S) ==
    IF S = {} THEN <<>>
    ELSE LET f == CHOOSE x \in S : \A y \in S :
                      \/ x.createdAt > y.createdAt
                      \/ (x.createdAt = y.createdAt /\ x.id >= y.id)
         IN <<f>> \o SortDesc(S \ {f})

Take(s, n) == SubSeq(s, 1, IF Len(s) < n THEN Len(s) ELSE n)

ServerContent(st, start, size) ==
    Take(SortDesc({f \in st : f.createdAt >= start}), size)

\* What query_critical_findings returns to main(): the content of a
\* successful response, [] after a RequestException
QueryReturn(outcome, content) ==
    IF outcome = "ok" THEN content ELSE <<>>

\* The branch of `if findings:` in main()
MainBranch(batch) == IF Len(batch) > 0 THEN "found" ELSE "empty"

\* Variant: no `except Exception` handler around the cycle
OnCycleException_Uncaught == "crashed"

\* main(): where an exception of class Exception raised inside the try goes
OnCycleException == "errsleep"

\* Variant: the signal is held back while a batch is being notified
OnKeyboardInterrupt_Deferred(p) ==
    IF p = "notify" THEN "notify"
    ELSE IF p \in {"poll", "update", "sleep"} THEN "ShutDown"
    ELSE "crashed"

\* main(): where a KeyboardInterrupt goes, by the position it arrives at
OnKeyboardInterrupt(p) ==
    IF p \in {"poll", "notify", "update", "sleep"} THEN "ShutDown"
    ELSE "crashed"

\* Variant: the window is never advanced
NewLastPoll_Stale(lp, fstatus, t) == lp

\* main(): the value assigned to last_poll at the end of the try body
NewLastPoll(lp, fstatus, t) == t

Cap2(n) == IF n >= 2 THEN 2 ELSE n + 1

\* Variant: the identifier is recorded before the outcome is known
LedgerAfter_MarkFirst(ledger, id, outcome) == MarkSent(ledger, id)

\* send_alert: the ledger after a dispatch that ended with `outcome`
LedgerAfter(ledger, id, outcome) ==
    IF outcome = "ok" THEN MarkSent(ledger, id) ELSE ledger

\* Variant: a rejected message is sent a second time inside send_alert
CallsMade_Retry(already, outcome) ==
    IF already THEN 0 ELSE IF outcome = "SlackApiError" THEN 2 ELSE 1

\* send_alert: the number of chat_postMessage calls of one invocation
CallsMade(already, outcome) == IF already THEN 0 ELSE 1

\* send_alert: what the invocation hands to main(): True, False, or an
\* exception that is no SlackApiError
SendAlertResult(already, outcome) ==
    IF already THEN "False"
    ELSE IF outcome = "ok" THEN "True"
    ELSE IF outcome = "SlackApiError" THEN "False"
    ELSE "raised"

SendRecord(already, outcome) ==
    [outcome |-> IF already THEN "skip" ELSE outcome,
     calls   |-> CallsMade(already, outcome),
     ret     |-> SendAlertResult(already, outcome)]

NoSend == [outcome |-> "none", calls |-> 0, ret |-> "none"]

----------------------------------------------------------------------------
\* Rendering: _build_message_blocks and the fallback text of send_alert.
\* A JSON value is a record: its type, its text and, for an object, the
\* number of its entries. A finding maps every key to a value; Absent
\* stands for a key the record does not have.
StrV(x) == [t |-> "str", s |-> x, n |-> 0]
NumV(x) == [t |-> "num", s |-> x, n |-> 0]
DictV(k) == [t |-> "dict", s |-> "", n |-> k]
Null == [t |-> "null", s |-> "", n |-> 0]
Absent == [t |-> "absent", s |-> "", n |-> 0]
KeyError == [t |-> "KeyError", s |-> "", n |-> 0]

Keys == {"id", "sql", "riskScore", "riskLevel", "checkerId", "message",
         "recommendation", "createdAt", "metadata"}

FindingRecords ==
    [id : {StrV("f-1")},
     sql : {Absent, StrV("DELETE FROM users")},
     riskScore : {Absent, NumV("95")},
     riskLevel : {Absent, Null, StrV("CRITICAL"), StrV("HIGH"),
                  StrV("MEDIUM"), StrV("LOW"), StrV("EXTREME")},
     checkerId : {Absent, StrV("NoWhereClause")},
     message : {Absent, Null, StrV("DELETE without WHERE")},
     recommendation : {Absent, Null, StrV("Add a WHERE clause")},
     createdAt : {Absent, StrV("2026-01-01T00:00:00")},
     metadata : {Absent, Null} \cup {DictV(k) : k \in 0..MaxMeta}]

\* Variant: finding[key], which raises KeyError for a key that is absent
Get_Strict(f, key, default) == IF f[key] = Absent THEN KeyError ELSE f[key]

\* finding.get(key, default)
Get(f, key, default) == IF f[key] = Absent THEN default ELSE f[key]

\* str() of a value inside an f-string
Format(v) == IF v.t = "null" THEN "None" ELSE v.s

\* Python truth value of a JSON value
TruthyValue(v) ==
    CASE v.t \in {"absent", "null"} -> FALSE
      [] v.t = "dict" -> v.n > 0
      [] v.t = "str" -> v.s # ""
      [] OTHER -> TRUE

emoji_map == [CRITICAL |-> ":rotating_light:", HIGH |-> ":warning:",
              MEDIUM |-> ":yellow_circle:", LOW |-> ":information_source:"]

\* emoji_map.get(severity, ':question:')
Emoji(severity) ==
    IF severity.t = "str" /\ severity.s \in DOMAIN emoji_map
    THEN emoji_map[severity.s] ELSE ":question:"

Numerals == <<"1", "2", "3", "4", "5", "6", "7", "8", "9">>

\* '\n'.join of the lines of metadata.items(); the entries of an object with
\* k entries are key1: value1 .. keyk: valuek
RECURSIVE MetadataText(_)
MetadataText(k) ==
    IF k = 0 THEN ""
    ELSE (IF k = 1 THEN "" ELSE MetadataText(k - 1) \o "\n")
         \o "* *key" \o Numerals[k] \o ":* value" \o Numerals[k]

\* The code fence of the SQL section (three backquotes in the source)
Fence == "'''"

Block(type, text, fields) == [type |-> type, text |-> text, fields |-> fields]

\* Variant: a placeholder section when there is no metadata
MetadataBlocks_Placeholder(metadata) ==
    IF TruthyValue(metadata)
    THEN <<Block("section",
                 "*Additional Details:*\n" \o MetadataText(metadata.n), <<>>)>>
    ELSE <<Block("section", "*Additional Details:*\nNone", <<>>)>>

\* _build_message_blocks: the blocks appended `if metadata:`
MetadataBlocks(metadata) ==
    IF TruthyValue(metadata)
    THEN <<Block("section",
                 "*Additional Details:*\n" \o MetadataText(metadata.n), <<>>)>>
    ELSE <<>>

\* _build_message_blocks
BuildMessageBlocks(f) ==
    LET risk_score == Get(f, "riskScore", NumV("0"))
        severity == Get(f, "riskLevel", StrV("UNKNOWN"))
        emoji == Emoji(severity)
    IN <<Block("header", emoji \o " Critical SQL Audit Finding", <<>>),
         Block("section", "",
               <<"*Severity:*\n" \o Format(severity),
                 "*Risk Score:*\n" \o Format(risk_score) \o "/100",
                 "*Checker:*\n" \o Format(Get(f, "checkerId", StrV("Unknown"))),
                 "*Time:*\n" \o Format(Get(f, "createdAt", StrV("Unknown")))>>),
         Block("section",
               "*SQL Statement:*\n" \o Fence
                   \o Format(Get(f, "sql", StrV("N/A"))) \o Fence, <<>>),
         Block("section",
               "*Issue:*\n" \o Format(Get(f, "message",
                                          StrV("No description available"))),
               <<>>),
         Block("section",
               "*Recommendation:*\n"
                   \o Format(Get(f, "recommendation",
                                 StrV("No recommendation available"))),
               <<>>),
         Block("divider", "", <<>>)>>
       \o MetadataBlocks(Get(f, "metadata", Null))

\* send_alert: text=f"Critical SQL Issue: {finding.get('message', 'Unknown')}"
FallbackText(f) ==
    "Critical SQL Issue: " \o Format(Get(f, "message", StrV("Unknown")))

\* Whether a lookup made while the payload is built raises
RenderRaises(f) ==
    \E k \in Keys \ {"id"} : Get(f, k, Null) = KeyError

\* send_alert lines 79-86: the arguments of chat_postMessage, or the
\* exception raised while they are built
Payload(f) ==
    IF RenderRaises(f)
    THEN [status |-> "raised", blocks |-> <<>>, text |-> ""]
    ELSE [status |-> "ok", blocks |-> BuildMessageBlocks(f),
          text |-> FallbackText(f)]

NoPayload == [status |-> "none", blocks |-> <<>>, text |-> ""]

----------------------------------------------------------------------------
\* The process is about to run main(); the audit service holds no finding
\* yet, or one created inside the look-back window before the start.
Init ==
    /\ pc = "init"
    /\ token \in Tokens
    /\ sent_alerts = {}
    /\ last_poll = 0
    /\ now = StartTime
    /\ findings = <<>>
    /\ idx = 1
    /\ store \in {{}, {Finding(1, StartTime - 1)}}
    /\ fetchStatus = "none"
    /\ since = 0
    /\ branch = "none"
    /\ lastExc = "none"
    /\ posted = [i \in Ids |-> 0]
    /\ called = {}
    /\ skipped = {}
    /\ failed = {}
    /\ fetched = FALSE
    /\ lastSend = NoSend
    /\ queryTime = 0
    /\ resumed = FALSE
    /\ rin = <<>>
    /\ rout = <<>>

\* main() lines 230-239: build the clients, set last_poll
Startup ==
    /\ pc = "init"
    /\ IF Truthy(token)
       THEN /\ pc' = "poll"
            /\ sent_alerts' = {}
            /\ last_poll' = now - Lookback
            /\ lastExc' = lastExc
       ELSE /\ pc' = "exit1"
            /\ lastExc' = "ValueError"
            /\ UNCHANGED <<sent_alerts, last_poll>>
    /\ UNCHANGED <<token, now, findings, idx, store, fetchStatus, since,
                   branch, posted, called, skipped, failed, fetched,
                   lastSend, queryTime, resumed, rin, rout>>

\* The rest of a cycle after query_critical_findings has returned `batch`
AfterQuery(batch) ==
    /\ findings' = batch
    /\ idx' = 1
    /\ branch' = MainBranch(batch)
    /\ pc' = IF MainBranch(batch) = "found" THEN "notify" ELSE "update"

PollFrame ==
    /\ since' = last_poll
    /\ fetched' = TRUE
    /\ called' = {}
    /\ skipped' = {}
    /\ queryTime' = now
    /\ resumed' = (fetchStatus = "raised" \/ idx <= Len(findings))
    /\ UNCHANGED <<token, sent_alerts, last_poll, now, store, posted, failed,
                   lastSend, rin, rout>>

\* query_critical_findings: the request succeeds
FetchOk ==
    /\ pc = "poll"
    /\ fetchStatus' = "ok"
    /\ AfterQuery(QueryReturn("ok", ServerContent(store, last_poll, DefaultLimit)))
    /\ lastExc' = lastExc
    /\ PollFrame

\* query_critical_findings: the request succeeds and the service answers with
\* any content (repeated findings, findings outside the window)
FetchAny ==
    /\ pc = "poll"
    /\ fetchStatus' = "ok"
    /\ \E n \in 0..MaxBatch : \E batch \in [1..n -> store] :
           AfterQuery(QueryReturn("ok", batch))
    /\ lastExc' = lastExc
    /\ PollFrame

\* query_critical_findings: requests raises a RequestException
FetchFail ==
    /\ pc = "poll"
    /\ fetchStatus' = "failed"
    /\ AfterQuery(QueryReturn("failed", <<>>))
    /\ lastExc' = "RequestException"
    /\ PollFrame

\* query_critical_findings: another exception escapes (the body is no
\* JSON object)
FetchRaise ==
    /\ pc = "poll"
    /\ fetchStatus' = "raised"
    /\ pc' = OnCycleException
    /\ branch' = "none"
    /\ lastExc' = "Exception"
    /\ UNCHANGED <<findings, idx>>
    /\ PollFrame

NextInBatch ==
    /\ idx' = idx + 1
    /\ pc' = IF idx + 1 > Len(findings) THEN "update" ELSE "notify"

\* send_alert for findings[idx], with the outcome of chat_postMessage
SendAlert(outcome) ==
    /\ pc = "notify"
    /\ idx <= Len(findings)
    /\ LET id == findings[idx].id IN
       IF AlreadySent(sent_alerts, id)
       THEN /\ outcome = "ok"
            /\ lastSend' = SendRecord(TRUE, outcome)
            /\ skipped' = skipped \cup {id}
            /\ NextInBatch
            /\ UNCHANGED <<sent_alerts, posted, called, failed, lastExc>>
       ELSE /\ called' = called \cup {id}
            /\ skipped' = skipped
            /\ lastSend' = SendRecord(FALSE, outcome)
            /\ sent_alerts' = LedgerAfter(sent_alerts, id, outcome)
            /\ CASE outcome = "ok" ->
                      /\ posted' = [posted EXCEPT ![id] = Cap2(@)]
                      /\ NextInBatch
                      /\ UNCHANGED <<failed, lastExc>>
                 [] outcome = "SlackApiError" ->
                      /\ failed' = failed \cup {id}
                      /\ lastExc' = "SlackApiError"
                      /\ NextInBatch
                      /\ UNCHANGED posted
                 [] outcome = "raise" ->
                      /\ failed' = failed \cup {id}
                      /\ lastExc' = "Exception"
                      /\ pc' = OnCycleException
                      /\ UNCHANGED <<posted, idx>>
    /\ UNCHANGED <<token, last_poll, now, findings, store, fetchStatus,
                   since, branch, fetched, queryTime, resumed, rin, rout>>

Dispatch == \E outcome \in {"ok", "SlackApiError", "raise"} : SendAlert(outcome)

\* last_poll = datetime.now()
UpdateLastPoll ==
    /\ pc = "update"
    /\ last_poll' = NewLastPoll(last_poll, fetchStatus, now)
    /\ pc' = "sleep"
    /\ UNCHANGED <<token, sent_alerts, now, findings, idx, store, fetchStatus,
                   since, branch, lastExc, posted, called, skipped, failed,
                   fetched, lastSend, queryTime, resumed, rin, rout>>

\* time.sleep(POLL_INTERVAL) at the end of the try body
Sleep ==
    /\ pc = "sleep"
    /\ now + POLL_INTERVAL <= MaxTime
    /\ now' = now + POLL_INTERVAL
    /\ pc' = "poll"
    /\ UNCHANGED <<token, sent_alerts, last_poll, findings, idx, store,
                   fetchStatus, since, branch, lastExc, posted, called,
                   skipped, failed, fetched, lastSend, queryTime, resumed,
                   rin, rout>>

\* time.sleep(POLL_INTERVAL) in the `except Exception` handler
ErrSleep ==
    /\ pc = "errsleep"
    /\ now + POLL_INTERVAL <= MaxTime
    /\ now' = now + POLL_INTERVAL
    /\ pc' = "poll"
    /\ UNCHANGED <<token, sent_alerts, last_poll, findings, idx, store,
                   fetchStatus, since, branch, lastExc, posted, called,
                   skipped, failed, fetched, lastSend, queryTime, resumed,
                   rin, rout>>

\* The stop signal arrives
KeyboardInterrupt ==
    /\ pc \in LoopStates \cup {"init"}
    /\ pc' = OnKeyboardInterrupt(pc)
    /\ lastExc' = "KeyboardInterrupt"
    /\ \/ UNCHANGED <<posted, called, lastSend>>
       \* inside send_alert, after chat_postMessage returned and before
       \* sent_alerts.add
       \/ /\ pc = "notify"
          /\ idx <= Len(findings)
          /\ ~AlreadySent(sent_alerts, findings[idx].id)
          /\ posted' = [posted EXCEPT ![findings[idx].id] = Cap2(@)]
          /\ called' = called \cup {findings[idx].id}
          /\ lastSend' = [outcome |-> "interrupted",
                          calls |-> CallsMade(FALSE, "ok"), ret |-> "raised"]
    /\ UNCHANGED <<token, sent_alerts, last_poll, now, findings, idx, store,
                   fetchStatus, since, branch, skipped, failed, fetched,
                   queryTime, resumed, rin, rout>>

\* Time passes while the process is at work
Tick ==
    /\ pc \in {"poll", "notify", "update"}
    /\ now < MaxTime
    /\ now' = now + 1
    /\ UNCHANGED <<pc, token, sent_alerts, last_poll, findings, idx, store,
                   fetchStatus, since, branch, lastExc, posted, called,
                   skipped, failed, fetched, lastSend, queryTime, resumed,
                   rin, rout>>

\* The audit engine records a new CRITICAL finding
CreateFinding ==
    /\ pc \notin Terminated
    /\ \E i \in Ids :
          /\ \A f \in store : f.id # i
          /\ store' = store \cup {Finding(i, now)}
    /\ UNCHANGED <<pc, token, sent_alerts, last_poll, now, findings, idx,
                   fetchStatus, since, branch, lastExc, posted, called,
                   skipped, failed, fetched, lastSend, queryTime, resumed,
                   rin, rout>>

Common ==
    \/ Startup
    \/ FetchFail
    \/ FetchRaise
    \/ Dispatch
    \/ UpdateLastPoll
    \/ Sleep
    \/ ErrSleep
    \/ KeyboardInterrupt
    \/ Tick
    \/ CreateFinding

Next == FetchOk \/ Common

NextAny == FetchAny \/ Common

Spec == Init /\ [][Next]_vars

SpecAny == Init /\ [][NextAny]_vars

\* send_alert builds the payload of one finding record
InitRender ==
    /\ pc = "notify"
    /\ token = "xoxb-token"
    /\ sent_alerts = {}
    /\ last_poll = 0
    /\ now = StartTime
    /\ findings = <<>>
    /\ idx = 1
    /\ store = {}
    /\ fetchStatus = "ok"
    /\ since = 0
    /\ branch = "found"
    /\ lastExc = "none"
    /\ posted = [i \in Ids |-> 0]
    /\ called = {}
    /\ skipped = {}
    /\ failed = {}
    /\ fetched = TRUE
    /\ lastSend = NoSend
    /\ queryTime = StartTime
    /\ resumed = FALSE
    /\ rin \in FindingRecords
    /\ rout = NoPayload

Render ==
    /\ rout = NoPayload
    /\ rout' = Payload(rin)
    /\ UNCHANGED <<pc, token, sent_alerts, last_poll, now, findings, idx,
                   store, fetchStatus, since, branch, lastExc, posted, called,
                   skipped, failed, fetched, lastSend, queryTime, resumed,
                   rin>>

NextRender == Render

SpecRender == InitRender /\ [][NextRender]_vars

TypeOK ==
    /\ pc \in PcValues
    /\ token \in Tokens
    /\ sent_alerts \subseteq Ids
    /\ last_poll \in Times
    /\ now \in Times
    /\ idx \in 1..(Len(findings) + 1)
    /\ \A f \in store : f.id \in Ids /\ f.createdAt \in Times
    /\ fetchStatus \in {"none", "ok", "failed", "raised"}
    /\ branch \in {"none", "found", "empty"}

----------------------------------------------------------------------------
\* C1: no duplicate notification. For every finding identifier, whatever the
\* service returns (the same finding in later cycles, or twice in one
\* batch) and however dispatches end, at most one chat_postMessage call for
\* that identifier returns successfully.
C1_NoDuplicate == \A i \in Ids : posted[i] <= 1

\* A batch holding the same finding twice has been worked through: the first
\* occurrence was posted and marked, the second was skipped.
C1_Witness ==
    /\ pc = "update"
    /\ Len(findings) = 2
    /\ findings[1].id = findings[2].id
    /\ posted[findings[1].id] = 1
    /\ findings[1].id \in skipped
    /\ findings[1].id \in sent_alerts

\* C2: no skip under source outage. When the fetch of a cycle failed, the
\* loop goes to sleep with last_poll equal to the since-time that the failed
\* query used.
C2_NoSkipUnderOutage ==
    (pc = "sleep" /\ fetchStatus = "failed") => last_poll = since

\* C3: retry on failure. A finding whose dispatch has failed and that is not
\* in the ledger is dispatched again by every later cycle whose fetch result
\* holds it: when such a cycle ends, chat_postMessage has been called for it.
C3_RetryOnFailure ==
    (pc \in {"update", "sleep", "errsleep"} /\ fetchStatus = "ok") =>
        \A k \in 1..Len(findings) :
            (findings[k].id \in failed /\ findings[k].id \notin sent_alerts)
                => findings[k].id \in called

\* C4: a finding whose dispatch failed stays eligible. When the next cycle is
\* about to query, its since-time (last_poll) is not later than the creation
\* time of any finding that the cycle before called the channel for without
\* success.
C4_FailedStaysInWindow ==
    pc = "poll" =>
        \A f \in store :
            (f.id \in called /\ f.id \in failed /\ f.id \notin sent_alerts)
                => last_poll <= f.createdAt

\* C5: a single channel failure does not abort the batch. When a cycle with
\* a fetched batch ends (the loop is about to advance the window or to
\* sleep), every finding of the batch is in the ledger or has had its
\* dispatch attempted in this cycle.
C5_BatchContinues ==
    (pc \in {"update", "sleep", "errsleep"} /\ fetchStatus = "ok") =>
        \A k \in 1..Len(findings) :
            findings[k].id \in sent_alerts \/ findings[k].id \in called

\* C6: no error in steady-state polling ends the process. The process is
\* terminated only by the startup configuration failure or by the stop
\* signal; a step of the loop that is not the stop signal stays in the loop,
\* and the sleep after a logged cycle error lasts POLL_INTERVAL and leads to
\* the next poll.
C6_LoopSurvivesErrors ==
    /\ [](pc \in Terminated =>
            \/ (pc = "exit1" /\ lastExc = "ValueError" /\ ~fetched)
            \/ lastExc = "KeyboardInterrupt")
    /\ [][/\ (pc \in LoopStates /\ lastExc' # "KeyboardInterrupt")
                => pc' \in LoopStates
          /\ (pc = "errsleep" /\ pc' # "errsleep"
                /\ lastExc' # "KeyboardInterrupt")
                => (pc' = "poll" /\ now' = now + POLL_INTERVAL)]_vars

\* After an exception escaped a cycle the loop has slept and is about to
\* poll again.
C6_Witness ==
    /\ pc = "poll"
    /\ lastExc = "Exception"
    /\ fetchStatus \in {"ok", "raised"}
    /\ now > StartTime

\* C7: the stop signal, arriving in any state of the poll loop, leads to
\* ShutDown through the graceful-shutdown branch.
C7_InterruptShutsDown ==
    (lastExc = "KeyboardInterrupt" /\ fetched) => pc = "ShutDown"

\* C8: a missing credential is fatal at startup. With SLACK_TOKEN absent or
\* empty the process never enters the poll loop: no fetch, no channel call,
\* and when it has ended its exit status is not zero.
C8_MissingTokenFatal ==
    token \in {NoToken, ""} =>
        /\ pc \in {"init", "exit1", "crashed"}
        /\ ~fetched
        /\ called = {}
        /\ \A i \in Ids : posted[i] = 0
        /\ sent_alerts = {}
        /\ (pc \in Terminated => ExitStatus(pc) # 0)

\* The process has exited at startup on an empty token.
C8_Witness == token = "" /\ pc = "exit1" /\ lastExc = "ValueError"

\* C9: the poll loop can tell a failed fetch from an empty result. After a
\* failed fetch, the value handed to main() or the branch main() takes
\* differs from those of a successful query that matched nothing.
C9_FailureDistinguished ==
    (fetchStatus = "failed" /\ pc = "update") =>
        \/ findings # QueryReturn("ok", <<>>)
        \/ branch # MainBranch(QueryReturn("ok", <<>>))

\* C10: window advance on the success path. Whenever the loop reaches its
\* sleep after a cycle whose fetch succeeded, last_poll is the current time;
\* and inside the loop last_poll changes only at the assignment that
\* precedes the sleep, to the current time.
C10_WindowAdvance ==
    [][/\ (pc # "sleep" /\ pc' = "sleep" /\ fetchStatus = "ok")
             => last_poll' = now'
       /\ (pc \in LoopStates /\ last_poll' # last_poll)
             => (pc = "update" /\ pc' = "sleep" /\ last_poll' = now)]_vars

\* A cycle with a successful fetch and a handled dispatch failure has
\* advanced the window and is asleep.
C10_Witness ==
    /\ pc = "sleep"
    /\ fetchStatus = "ok"
    /\ \E i \in called : i \in failed /\ i \notin sent_alerts
    /\ last_poll = now
    /\ last_poll > since

\* C11: ledger invariant. While the process runs, sent_alerts is exactly the
\* set of identifiers for which a chat_postMessage call has returned: no
\* identifier enters it after a failed dispatch or a skip, and every
\* returned call is recorded before the next finding is considered.
C11_LedgerExact ==
    pc \notin Terminated => sent_alerts = {i \in Ids : posted[i] >= 1}

\* In the middle of a batch the ledger holds a dispatched finding, lacks one
\* whose dispatch failed, and a finding has been skipped.
C11_Witness ==
    /\ pc = "notify"
    /\ idx = 2
    /\ findings[1].id \in skipped
    /\ sent_alerts # {}
    /\ failed \ sent_alerts # {}

\* C12: the ledger only grows. Every step of the program leaves sent_alerts
\* a superset of what it was.
C12_LedgerGrows == [][sent_alerts \subseteq sent_alerts']_vars

\* The ledger holds two identifiers and has been through a failed dispatch,
\* a cycle ended by an exception and the sleep after it.
C12_Witness ==
    /\ Cardinality(sent_alerts) = 2
    /\ lastExc = "Exception"
    /\ failed # {}
    /\ pc = "sleep"

\* C14 as stated: orderly stop after the current cycle. When the interrupt
\* arrives while a batch is being notified the loop does not stop there: the
\* rest of the batch is still dispatched first.
C14_FinishesBatch ==
    [][(pc = "notify" /\ lastExc' = "KeyboardInterrupt")
          => pc' # "ShutDown"]_vars

\* C14 as amended: when the interrupt arrives while a batch is being
\* notified the loop stops at once through the graceful-shutdown branch.
\* The findings not yet processed stay unprocessed, the ledger and last_poll
\* keep their values, and nothing happens after ShutDown.
C14_StopsAtOnce ==
    [][/\ pc # "ShutDown"
       /\ (pc = "notify" /\ lastExc' = "KeyboardInterrupt")
             => /\ pc' = "ShutDown"
                /\ idx' = idx
                /\ findings' = findings
                /\ sent_alerts' = sent_alerts
                /\ last_poll' = last_poll]_vars

\* The loop was stopped in the middle of a batch: one finding dispatched and
\* marked, the next one never considered.
C14_Witness ==
    /\ pc = "ShutDown"
    /\ lastExc = "KeyboardInterrupt"
    /\ idx = 2
    /\ Len(findings) = 2
    /\ findings[1].id \in sent_alerts
    /\ findings[2].id \notin sent_alerts
    /\ findings[2].id \notin called

C16_OneCallPerDecision ==
    [][(pc = "notify" /\ (idx' # idx \/ pc' = OnCycleException)) =>
          IF AlreadySent(sent_alerts, findings[idx].id)
          THEN /\ lastSend'.calls = 0
               /\ sent_alerts' = sent_alerts
               /\ posted' = posted
               /\ called' = called
          ELSE /\ lastSend'.calls = 1
               /\ called' = called \cup {findings[idx].id}
               /\ \A i \in Ids :
                     posted'[i] <= posted[i]
                                    + (IF i = findings[idx].id THEN 1 ELSE 0)]_vars

\* A batch of two has been worked through: the channel was called once for
\* the first finding and rejected it, and the second, already in the ledger,
\* was skipped with no call.
C16_Witness ==
    /\ pc = "update"
    /\ Len(findings) = 2
    /\ findings[1].id \in called
    /\ findings[1].id \in failed
    /\ findings[1].id \notin sent_alerts
    /\ findings[2].id \in skipped
    /\ findings[2].id \notin called
    /\ lastSend.calls = 0
    /\ lastSend.outcome = "skip"

\* C17: the dispatcher surfaces the outcome classification. The value that
\* send_alert hands to the poll loop after a dispatch rejected by the
\* channel differs from the value of a successful send and from the value
\* of a skip of a finding already in the ledger.
C17_OutcomeSurfaced ==
    lastSend.outcome = "SlackApiError" =>
        /\ lastSend.ret # SendAlertResult(FALSE, "ok")
        /\ lastSend.ret # SendAlertResult(TRUE, "ok")

\* C18: successive poll windows leave no gap. When a cycle whose fetch
\* succeeded has gone to sleep, the since-time of the next query (last_poll)
\* is not later than the instant at which the query of this cycle was
\* issued.
C18_NoGap ==
    (pc = "sleep" /\ fetchStatus = "ok") => last_poll <= queryTime

\* C19: eventual delivery when nothing fails. In a run in which no fetch and
\* no dispatch has failed and no exception or stop signal has occurred,
\* whenever a cycle is over (the loop sleeps or is about to query again)
\* every finding of the service created at or after the initial last_poll is
\* in the ledger or still inside the window of the coming query (last_poll
\* never moves back, so a finding outside both is never fetched again).
C19_NothingLost ==
    (pc \in {"sleep", "poll"} /\ fetched /\ failed = {} /\ lastExc = "none") =>
        \A f \in store :
            f.createdAt >= StartTime - Lookback =>
                f.id \in sent_alerts \/ f.createdAt >= last_poll

\* C20: a cycle aborted by an exception resumes without loss or repetition.
\* The abort leaves last_poll and the ledger as they were, and when the
\* cycle that follows an aborted one is over, every finding it fetched is in
\* the ledger or has had its dispatch attempted in that cycle.
C20_ResumeCompletes ==
    /\ [][(pc \in LoopStates /\ pc' = OnCycleException /\ pc # pc')
             => (last_poll' = last_poll /\ sent_alerts \subseteq sent_alerts')]_vars
    /\ []((resumed /\ fetchStatus = "ok"
             /\ pc \in {"update", "sleep", "errsleep"}) =>
            \A k \in 1..Len(findings) :
                findings[k].id \in sent_alerts \/ findings[k].id \in called)

====
